---------------------------- MODULE Spec2Model ----------------------------
(***************************************************************************)
(* A model of collect_and_clean.py: configuration loading (load_config),   *)
(* file discovery (collect_files) and the record cleaning contract.        *)
(*                                                                         *)
(* Three specifications share the module.  SpecConfig runs load_config on  *)
(* a configuration path, SpecCollect runs collect_files on a list of       *)
(* sources over a directory tree, SpecClean runs the cleaning operation    *)
(* on a record sequence.  The variables of the other two components stay   *)
(* at their idle values in each specification.                             *)
(***************************************************************************)
EXTENDS Integers, Sequences, FiniteSets, TLC

VARIABLES
    \* ---- load_config ----
    pc,           \* position inside load_config
    config_path,  \* "None" | "missing" | "present"
    yaml,         \* TRUE when the yaml module was imported (line 31-34)
    content,      \* what yaml.safe_load makes of the file: [ok, doc]
    opened,       \* TRUE once config_path.open() has been called
    data,         \* local variable data   (line 93)
    sources,      \* local variable sources (line 97)
    cleaning,     \* local variable cleaning (line 116)
    export,       \* local variable export  (line 126)
    result,       \* what load_config returned or raised
    \* ---- collect_files ----
    cpc,          \* position inside collect_files
    tree,         \* the directory tree: node path -> kind
    srcs,         \* the argument sources
    si,           \* index of the source the outer loop is at
    pi,           \* index of the pattern the middle loop is at
    hits,         \* local variable hits (line 140)
    out,          \* what collect_files returned
    \* ---- record cleaning ----
    kpc,          \* the cleaning step that comes next
    records,      \* the record sequence first passed to clean
    options,      \* the CleaningConfig passed to clean, both times
    work,         \* the record sequence the running pass has reached
    once,         \* what the first pass returned
    pass          \* 1 during the first pass, 2 during the second

cfgvars == <<pc, config_path, yaml, content, opened, data, sources, cleaning,
             export, result>>

colvars == <<cpc, tree, srcs, si, pi, hits, out>>

clnvars == <<kpc, records, options, work, once, pass>>

(***************************************************************************)
(* Python values as YAML produces them.  Every value is a record [t, v]    *)
(* whose tag t names the Python type.                                      *)
(***************************************************************************)
Null == [t |-> "null", v |-> "None"]

VStr(s) == [t |-> "str", v |-> s]

VInt(n) == [t |-> "int", v |-> n]

VBool(b) == [t |-> "bool", v |-> b]

VList(items) == [t |-> "list", v |-> items]

VMap(m) == [t |-> "map", v |-> m]

EmptyMap == VMap(<<>>)

\* Python truthiness, as used by `or` and bool().
Truthy(x) ==
    CASE x.t = "null" -> FALSE
      [] x.t = "bool" -> x.v
      [] x.t = "int"  -> x.v # 0
      [] x.t = "str"  -> x.v # ""
      [] x.t = "list" -> Len(x.v) > 0
      [] x.t = "map"  -> DOMAIN x.v # {}

\* a or b
Or(a, b) == IF Truthy(a) THEN a ELSE b

\* Only dict has .get; anything else raises AttributeError.
HasGet(x) == x.t = "map"

\* d.get(k)
Get(d, k) == IF k \in DOMAIN d.v THEN d.v[k] ELSE Null

\* d.get(k, dflt)
GetOr(d, k, dflt) == IF k \in DOMAIN d.v THEN d.v[k] ELSE dflt

\* str(x) on the values of the model.
PyStr(x) ==
    CASE x.t = "str"  -> x.v
      [] x.t = "null" -> "None"
      [] x.t = "bool" -> IF x.v THEN "True" ELSE "False"
      [] x.t = "int"  -> IF x.v = 0 THEN "0" ELSE "5"
      [] x.t = "list" -> "[...]"
      [] x.t = "map"  -> "{...}"

\* str.lower() on the strings of the model.
Lower(s) ==
    CASE s = "CSV"     -> "csv"
      [] s = "Parquet" -> "parquet"
      [] s = "None"    -> "none"
      [] s = "True"    -> "true"
      [] s = "False"   -> "false"
      [] OTHER         -> s

\* The characters of the strings of the model, for list(<str>).
Chars(s) ==
    CASE s = "*.csv" -> << "*", ".", "c", "s", "v" >>
      [] s = "*"     -> << "*" >>
      [] s = ""      -> << >>
      [] OTHER       -> << s >>

\* list(x): a list is copied, a str gives its characters, a dict its keys
\* (the model's dicts passed here are empty); None, int and bool raise
\* TypeError.
Listable(x) == x.t \in {"list", "str", "map"}

PyList(x) ==
    CASE x.t = "list" -> x.v
      [] x.t = "str"  -> [i \in DOMAIN Chars(x.v) |-> VStr(Chars(x.v)[i])]
      [] OTHER        -> << >>

(***************************************************************************)
(* The dataclasses and their defaults.                                     *)
(***************************************************************************)
DefaultPath == "./data/raw"

DefaultInclude == << VStr("*.jsonl"), VStr("*.json"), VStr("*.csv") >>

DefaultFormat == "parquet"

DefaultOutputDir == "./data/processed"

DefaultFilename == "dataset"

SourceConfig(path, include) == [path |-> path, include |-> include]

CleaningConfig(dd, tw, nu, re, lk) ==
    [drop_duplicates |-> dd, trim_whitespace |-> tw, normalize_unicode |-> nu,
     remove_empty |-> re, lower_keys |-> lk]

ExportConfig(format, output_dir, filename) ==
    [format |-> format, output_dir |-> output_dir, filename |-> filename]

AppConfig(s, c, e) ==
    [kind |-> "AppConfig", sources |-> s, cleaning |-> c, export |-> e]

DefaultAppConfig ==
    AppConfig(<< SourceConfig(DefaultPath, DefaultInclude) >>,
              CleaningConfig(TRUE, TRUE, TRUE, TRUE, FALSE),
              ExportConfig(DefaultFormat, DefaultOutputDir, DefaultFilename))

Raised(e) == [kind |-> e]

Running == [kind |-> "running"]

(***************************************************************************)
(* load_config, one action per stretch of the function between the points  *)
(* where it can raise.                                                     *)
(***************************************************************************)

\* One source object of the document becomes one SourceConfig (lines
\* 102-105 and 107-110).
ParseSource(s) ==
    SourceConfig(PyStr(GetOr(s, "path", VStr(DefaultPath))),
                 PyList(GetOr(s, "include", VList(DefaultInclude))))

\* list(...) of the include value raises TypeError on None, int and bool.
SourceRaises(s) == ~Listable(GetOr(s, "include", VList(DefaultInclude)))

\* sources_raw = data.get("sources") or data.get("source")   (line 96)
SourcesRaw(d) == Or(Get(d, "sources"), Get(d, "source"))

\* The isinstance chain of lines 99-112.
DictItems(raw) == SelectSeq(raw.v, LAMBDA s : s.t = "map")

ParseSources(raw) ==
    CASE raw.t = "list" ->
            [i \in DOMAIN DictItems(raw) |-> ParseSource(DictItems(raw)[i])]
      [] raw.t = "map" -> << ParseSource(raw) >>
      [] OTHER -> << SourceConfig(DefaultPath, DefaultInclude) >>

SourcesRaise(raw) ==
    CASE raw.t = "list" ->
            \E i \in DOMAIN DictItems(raw) : SourceRaises(DictItems(raw)[i])
      [] raw.t = "map" -> SourceRaises(raw)
      [] OTHER -> FALSE

\* cl = data.get("cleaning", {}) or {}     (line 115)
CleaningRaw(d) == Or(GetOr(d, "cleaning", EmptyMap), EmptyMap)

\* Variant: lower_keys defaults to True like the other flags.
ParseCleaning_LowerKeysOn(cl) ==
    CleaningConfig(Truthy(GetOr(cl, "drop_duplicates", VBool(TRUE))),
                   Truthy(GetOr(cl, "trim_whitespace", VBool(TRUE))),
                   Truthy(GetOr(cl, "normalize_unicode", VBool(TRUE))),
                   Truthy(GetOr(cl, "remove_empty", VBool(TRUE))),
                   Truthy(GetOr(cl, "lower_keys", VBool(TRUE))))

ParseCleaning(cl) ==
    CleaningConfig(Truthy(GetOr(cl, "drop_duplicates", VBool(TRUE))),
                   Truthy(GetOr(cl, "trim_whitespace", VBool(TRUE))),
                   Truthy(GetOr(cl, "normalize_unicode", VBool(TRUE))),
                   Truthy(GetOr(cl, "remove_empty", VBool(TRUE))),
                   Truthy(GetOr(cl, "lower_keys", VBool(FALSE))))

\* ex = data.get("export", {}) or {}       (line 125)
ExportRaw(d) == Or(GetOr(d, "export", EmptyMap), EmptyMap)

ParseExport(ex) ==
    ExportConfig(Lower(PyStr(GetOr(ex, "format", VStr(DefaultFormat)))),
                 PyStr(GetOr(ex, "output_dir", VStr(DefaultOutputDir))),
                 PyStr(GetOr(ex, "filename", VStr(DefaultFilename))))

Finish(r) ==
    /\ result' = r
    /\ pc' = "done"

\* lines 83-84
LC_NoPath ==
    /\ UNCHANGED <<colvars, clnvars>>
    /\ pc = "start"
    /\ config_path = "None"
    /\ Finish(DefaultAppConfig)
    /\ UNCHANGED <<config_path, yaml, content, opened, data, sources,
                   cleaning, export>>

\* lines 86-87
LC_NotFound ==
    /\ UNCHANGED <<colvars, clnvars>>
    /\ pc = "start"
    /\ config_path = "missing"
    /\ Finish(Raised("FileNotFoundError"))
    /\ UNCHANGED <<config_path, yaml, content, opened, data, sources,
                   cleaning, export>>

\* Variant: the yaml check stands before the exists() check.
LC_NoYaml_BeforeExists ==
    /\ UNCHANGED <<colvars, clnvars>>
    /\ pc = "start"
    /\ config_path # "None"
    /\ ~yaml
    /\ Finish(Raised("RuntimeError"))
    /\ UNCHANGED <<config_path, yaml, content, opened, data, sources,
                   cleaning, export>>

\* lines 89-90
LC_NoYaml ==
    /\ UNCHANGED <<colvars, clnvars>>
    /\ pc = "start"
    /\ config_path = "present"
    /\ ~yaml
    /\ Finish(Raised("RuntimeError"))
    /\ UNCHANGED <<config_path, yaml, content, opened, data, sources,
                   cleaning, export>>

\* lines 92-93
LC_Load ==
    /\ UNCHANGED <<colvars, clnvars>>
    /\ pc = "start"
    /\ config_path = "present"
    /\ yaml
    /\ opened' = TRUE
    /\ IF content.ok
          THEN /\ data' = Or(content.doc, EmptyMap)
               /\ pc' = "sources"
               /\ UNCHANGED result
          ELSE /\ Finish(Raised("YAMLError"))
               /\ UNCHANGED data
    /\ UNCHANGED <<config_path, yaml, content, sources, cleaning, export>>

\* lines 95-112
LC_Sources ==
    /\ UNCHANGED <<colvars, clnvars>>
    /\ pc = "sources"
    /\ IF ~HasGet(data)
          THEN Finish(Raised("AttributeError")) /\ UNCHANGED sources
          ELSE IF SourcesRaise(SourcesRaw(data))
                 THEN Finish(Raised("TypeError")) /\ UNCHANGED sources
                 ELSE /\ sources' = ParseSources(SourcesRaw(data))
                      /\ pc' = "cleaning"
                      /\ UNCHANGED result
    /\ UNCHANGED <<config_path, yaml, content, opened, data, cleaning, export>>

\* lines 114-122
LC_Cleaning ==
    /\ UNCHANGED <<colvars, clnvars>>
    /\ pc = "cleaning"
    /\ IF ~HasGet(CleaningRaw(data))
          THEN Finish(Raised("AttributeError")) /\ UNCHANGED cleaning
          ELSE /\ cleaning' = ParseCleaning(CleaningRaw(data))
               /\ pc' = "export"
               /\ UNCHANGED result
    /\ UNCHANGED <<config_path, yaml, content, opened, data, sources, export>>

\* lines 124-130
LC_Export ==
    /\ UNCHANGED <<colvars, clnvars>>
    /\ pc = "export"
    /\ IF ~HasGet(ExportRaw(data))
          THEN Finish(Raised("AttributeError")) /\ UNCHANGED export
          ELSE /\ export' = ParseExport(ExportRaw(data))
               /\ pc' = "return"
               /\ UNCHANGED result
    /\ UNCHANGED <<config_path, yaml, content, opened, data, sources, cleaning>>

\* line 132
LC_Return ==
    /\ UNCHANGED <<colvars, clnvars>>
    /\ pc = "return"
    /\ Finish(AppConfig(sources, cleaning, export))
    /\ UNCHANGED <<config_path, yaml, content, opened, data, sources,
                   cleaning, export>>

LoadConfig ==
    \/ LC_NoPath
    \/ LC_NotFound
    \/ LC_NoYaml
    \/ LC_Load
    \/ LC_Sources
    \/ LC_Cleaning
    \/ LC_Export
    \/ LC_Return

(***************************************************************************)
(* The configuration documents load_config is run on.                      *)
(***************************************************************************)

\* Longest list under the sources key.
MaxSourceList == 2

\* Some(k, vals): the key k absent, or present with one of vals.
Some(k, vals) == {<<>>} \cup {(k :> x) : x \in vals}

\* The maps made of one choice from each of three optional keys.
Join3(A, B, C) == {a @@ b @@ c : a \in A, b \in B, c \in C}

SourceObjs ==
    {VMap(p @@ i) :
        p \in Some("path", {VStr("in"), VInt(5), Null}),
        i \in Some("include", {VList(<<VStr("*.csv")>>), VList(<<>>),
                               VStr("*.csv"), VInt(5)})}

ListItems ==
    {VInt(5), VMap(<<>>), VMap([path |-> VStr("in")]),
     VMap([include |-> VList(<<VStr("*.csv")>>)]),
     VMap([path |-> VStr("in"), include |-> VList(<<>>)])}

SourceLists ==
    {VList(l) : l \in UNION {[1..n -> ListItems] : n \in 0..MaxSourceList}}

SourcesSections ==
    Some("sources", {Null, VInt(5), VStr("in")} \cup SourceLists \cup SourceObjs)
    \cup {("source" :> x) : x \in {VMap([path |-> VStr("alt")]), VInt(5)}}
    \cup {("sources" :> x) @@ ("source" :> VMap([path |-> VStr("alt")])) :
            x \in {VList(<<>>), Null, VMap([path |-> VStr("in")])}}

Flags ==
    {"drop_duplicates", "trim_whitespace", "normalize_unicode", "remove_empty",
     "lower_keys"}

FlagDefault(k) == k # "lower_keys"

CleaningObjs ==
    {VMap([k \in S |-> VBool(~FlagDefault(k))]) : S \in SUBSET Flags}
    \cup {VMap([k \in Flags |-> VBool(FlagDefault(k))]),
          VMap([drop_duplicates |-> Null]),
          VMap([drop_duplicates |-> VStr("false")]),
          VMap([lower_keys |-> VInt(5), remove_empty |-> VInt(0)])}

CleaningSections == Some("cleaning", {Null, VInt(5)} \cup CleaningObjs)

ExportObjs ==
    {VMap(f @@ o @@ n) :
        f \in Some("format", {VStr("csv"), VStr("CSV"), VStr("xml"),
                              VStr("parquet"), VInt(5)}),
        o \in Some("output_dir", {VStr("out")}),
        n \in Some("filename", {VStr("name")})}

ExportSections == Some("export", {Null, VInt(5)} \cup ExportObjs)

\* Documents whose top level is not a mapping of the known keys.
OddDocuments ==
    {Null, VInt(0), VInt(5), VStr("x"), VList(<<>>), VList(<<VInt(5)>>),
     VMap([extra |-> VInt(5)]),
     VMap([extra |-> VInt(5), export |-> VMap([format |-> VStr("csv")])])}

Documents ==
    {VMap(m) : m \in Join3(SourcesSections, CleaningSections, ExportSections)}
    \cup OddDocuments

Parsed(doc) == [ok |-> TRUE, doc |-> doc]

Unparseable == [ok |-> FALSE, doc |-> Null]

InitConfig ==
    /\ pc = "start"
    /\ config_path \in {"None", "missing", "present"}
    /\ yaml \in BOOLEAN
    /\ content \in
         IF config_path # "present" THEN {Unparseable}
         ELSE IF ~yaml THEN {Unparseable} \cup {Parsed(d) : d \in OddDocuments}
         ELSE {Unparseable} \cup {Parsed(d) : d \in Documents}
    /\ opened = FALSE
    /\ data = Null
    /\ sources = << >>
    /\ cleaning = Null
    /\ export = Null
    /\ result = Running
    \* collect_files is not called
    /\ cpc = "idle"
    /\ tree = << >>
    /\ srcs = << >>
    /\ si = 0
    /\ pi = 0
    /\ hits = << >>
    /\ out = << >>
    \* clean is not called
    /\ kpc = "idle"
    /\ records = << >>
    /\ options = CleaningConfig(TRUE, TRUE, TRUE, TRUE, FALSE)
    /\ work = << >>
    /\ once = << >>
    /\ pass = 0

vars == <<cfgvars, colvars, clnvars>>

SpecConfig == InitConfig /\ [][LoadConfig]_vars

(***************************************************************************)
(* Properties of load_config.                                              *)
(***************************************************************************)

\* What the document gives for a key: the value, or Absent when the key is
\* not there (or the enclosing value is no mapping at all).
Absent == [t |-> "absent", v |-> "absent"]

Field(d, k) == IF d.t = "map" /\ k \in DOMAIN d.v THEN d.v[k] ELSE Absent

Given(d, k) == Field(d, k).t # "absent"

\* load_config ran to its end on a document the YAML parser accepted.
LoadedDocument ==
    /\ pc = "done"
    /\ config_path = "present"
    /\ yaml
    /\ content.ok

\* The source objects the document gives, in order.
SourceObjects ==
    LET raw == SourcesRaw(Or(content.doc, EmptyMap))
    IN  CASE raw.t = "map"  -> << raw >>
          [] raw.t = "list" -> DictItems(raw)
          [] OTHER          -> << >>

\* A field of the result holds a string / a list / a boolean exactly as given.
KeptStr(g, r) == g.t = "str" /\ g.v = r

KeptList(g, r) == g.t = "list" /\ g.v = r

KeptBool(g, r) == g.t = "bool" /\ g.v = r

SourceDefaulted(o, r) ==
    /\ IF Given(o, "path") THEN KeptStr(Field(o, "path"), r.path)
                           ELSE r.path = "./data/raw"
    /\ IF Given(o, "include")
          THEN KeptList(Field(o, "include"), r.include)
          ELSE r.include = << VStr("*.jsonl"), VStr("*.json"), VStr("*.csv") >>

SourcesDefaulted(r) ==
    \A i \in DOMAIN SourceObjects :
        /\ i \in DOMAIN r.sources
        /\ SourceDefaulted(SourceObjects[i], r.sources[i])

CleaningDefaulted(r) ==
    LET cl == Field(content.doc, "cleaning")
    IN  \A k \in Flags :
            IF Given(cl, k) THEN KeptBool(Field(cl, k), r.cleaning[k])
                            ELSE r.cleaning[k] = (k # "lower_keys")

ExportDirAndNameDefaulted(r) ==
    LET ex == Field(content.doc, "export")
    IN  /\ IF Given(ex, "output_dir")
              THEN KeptStr(Field(ex, "output_dir"), r.export.output_dir)
              ELSE r.export.output_dir = "./data/processed"
        /\ IF Given(ex, "filename")
              THEN KeptStr(Field(ex, "filename"), r.export.filename)
              ELSE r.export.filename = "dataset"

FormatKeptVerbatim(r) ==
    LET ex == Field(content.doc, "export")
    IN  Given(ex, "format") => KeptStr(Field(ex, "format"), r.export.format)

FormatKeptLowered(r) ==
    LET ex == Field(content.doc, "export")
    IN  Given(ex, "format") =>
            /\ Field(ex, "format").t = "str"
            /\ r.export.format = Lower(Field(ex, "format").v)

\* C1 as stated: with no document, and for every existing parseable
\* document, load_config returns an AppConfig in which every omitted field
\* has its documented default and every present field keeps the value given.
C1_AsStated ==
    /\ (pc = "done" /\ config_path = "None") => result = DefaultAppConfig
    /\ LoadedDocument =>
          /\ result.kind = "AppConfig"
          /\ SourcesDefaulted(result)
          /\ CleaningDefaulted(result)
          /\ ExportDirAndNameDefaulted(result)
          /\ FormatKeptVerbatim(result)

\* A document shaped as the data model describes: the top level is a
\* mapping (or empty), cleaning and export are mappings (or empty) when
\* given, every given path, output_dir, filename and format is a string,
\* every given include is a list and every given flag is a boolean.
MappingOrEmpty(x) == x.t = "map" \/ ~Truthy(x)

GivenIs(d, k, type) == Given(d, k) => Field(d, k).t = type

WellShaped ==
    LET d  == content.doc
        cl == Field(d, "cleaning")
        ex == Field(d, "export")
    IN  /\ MappingOrEmpty(d)
        /\ Given(d, "cleaning") => MappingOrEmpty(cl)
        /\ Given(d, "export") => MappingOrEmpty(ex)
        /\ \A k \in Flags : GivenIs(cl, k, "bool")
        /\ \A k \in {"format", "output_dir", "filename"} : GivenIs(ex, k, "str")
        /\ \A i \in DOMAIN SourceObjects :
              /\ GivenIs(SourceObjects[i], "path", "str")
              /\ GivenIs(SourceObjects[i], "include", "list")

\* C1 (amended): with no document, and for every existing parseable document
\* that is shaped as the data model describes, load_config returns an
\* AppConfig in which every omitted field has its documented default and
\* every present field keeps the value given, the export format after
\* lower-casing.
C1_Defaults ==
    /\ (pc = "done" /\ config_path = "None") => result = DefaultAppConfig
    /\ (LoadedDocument /\ WellShaped) =>
          /\ result.kind = "AppConfig"
          /\ SourcesDefaulted(result)
          /\ CleaningDefaulted(result)
          /\ ExportDirAndNameDefaulted(result)
          /\ FormatKeptLowered(result)

\* A well-shaped document that gives one flag and omits the others, gives a
\* source path without include and an upper-case format, has been loaded.
C1_Witness ==
    /\ LoadedDocument
    /\ WellShaped
    /\ result.kind = "AppConfig"
    /\ Given(Field(content.doc, "cleaning"), "lower_keys")
    /\ ~Given(Field(content.doc, "cleaning"), "drop_duplicates")
    /\ Len(SourceObjects) = 2
    /\ Given(SourceObjects[1], "path")
    /\ ~Given(SourceObjects[1], "include")
    /\ ~Given(SourceObjects[2], "path")
    /\ Given(Field(content.doc, "export"), "format")
    /\ Field(Field(content.doc, "export"), "format").v = "CSV"
    /\ ~Given(Field(content.doc, "export"), "filename")

\* Neither key holds a source object: the value is absent, a scalar, an
\* empty list or a list without any mapping in it.
NoSourceObject(x) ==
    /\ x.t # "map"
    /\ x.t = "list" => \A i \in DOMAIN x.v : x.v[i].t # "map"

SourcesAbsentOrMalformed ==
    /\ NoSourceObject(Field(content.doc, "sources"))
    /\ NoSourceObject(Field(content.doc, "source"))

\* C2: when the sources/source key is absent or malformed the returned
\* AppConfig has exactly one source, the default one; load_config never
\* returns an AppConfig with zero sources.
C2_DefaultSource ==
    (LoadedDocument /\ result.kind = "AppConfig") =>
        /\ Len(result.sources) > 0
        /\ SourcesAbsentOrMalformed =>
              result.sources =
                << [path |-> "./data/raw",
                    include |-> << VStr("*.jsonl"), VStr("*.json"), VStr("*.csv") >>] >>

\* C3: every AppConfig load_config returns has a recognized export format;
\* any other format ends in a configuration error.
C3_RecognizedFormat ==
    (pc = "done" /\ result.kind = "AppConfig") =>
        result.export.format \in {"csv", "jsonl", "parquet"}

\* C4: a config path that does not exist ends in FileNotFoundError, whether
\* or not the YAML module is available, and the file is never opened or
\* parsed.
C4_NotFoundFirst ==
    config_path = "missing" =>
        /\ ~opened
        /\ data = Null
        /\ result.kind \in {"running", "FileNotFoundError"}
        /\ pc = "done" => result = Raised("FileNotFoundError")

\* The path is missing, the YAML module is missing too, and load_config
\* has ended.
C4_Witness ==
    /\ config_path = "missing"
    /\ ~yaml
    /\ pc = "done"
    /\ result.kind = "FileNotFoundError"

(***************************************************************************)
(* File discovery.  A file name is a sequence of characters, a path is a   *)
(* sequence of names (pathlib's parts), and the directory tree maps every  *)
(* node path below the working directory to the kind of entry found there. *)
(***************************************************************************)

\* ord() of the characters that occur in names and patterns.
Code(ch) ==
    CASE ch = "*" -> 42
      [] ch = "." -> 46
      [] ch = "/" -> 47
      [] ch = "?" -> 63
      [] ch = "a" -> 97
      [] ch = "b" -> 98
      [] ch = "c" -> 99
      [] ch = "d" -> 100
      [] ch = "e" -> 101
      [] ch = "n" -> 110
      [] ch = "x" -> 120

\* str.__lt__: comparison by code point, a proper prefix first.
RECURSIVE StrLt(_, _)
StrLt(s, t) ==
    IF t = << >> THEN FALSE
    ELSE IF s = << >> THEN TRUE
    ELSE IF Head(s) # Head(t) THEN Code(Head(s)) < Code(Head(t))
    ELSE StrLt(Tail(s), Tail(t))

\* str(path): the parts joined by the separator.
RECURSIVE PathStr(_)
PathStr(p) ==
    IF p = << >> THEN << "." >>
    ELSE IF Len(p) = 1 THEN Head(p)
    ELSE Head(p) \o << "/" >> \o PathStr(Tail(p))

\* PurePath.__lt__ compares the lists of parts: element by element, each
\* element as a string, a proper prefix first.
RECURSIVE PartsLt(_, _)
PartsLt(p, q) ==
    IF q = << >> THEN FALSE
    ELSE IF p = << >> THEN TRUE
    ELSE IF Head(p) # Head(q) THEN StrLt(Head(p), Head(q))
    ELSE PartsLt(Tail(p), Tail(q))

\* Variant: paths ordered as their strings.
PathLt_ByString(p, q) == StrLt(PathStr(p), PathStr(q))

PathLt(p, q) == PartsLt(p, q)

\* fnmatch on one name: * matches any run of characters, ? exactly one,
\* anything else itself.
RECURSIVE Match(_, _)
Match(name, pat) ==
    IF pat = << >> THEN name = << >>
    ELSE IF Head(pat) = "*"
        THEN Match(name, Tail(pat)) \/ (name # << >> /\ Match(Tail(name), pat))
    ELSE IF Head(pat) = "?"
        THEN name # << >> /\ Match(Tail(name), Tail(pat))
    ELSE name # << >> /\ Head(name) = Head(pat) /\ Match(Tail(name), Tail(pat))

Dot == << "." >>

DotDot == << ".", "." >>

\* Path(src.path): empty and "." components are dropped, ".." is kept.
PathOf(raw) == SelectSeq(raw, LAMBDA c : c # Dot /\ c # << >>)

KindAt(t, node) == IF node \in DOMAIN t THEN t[node] ELSE "none"

\* The directory the operating system reaches by following the parts from
\* the working directory; ok is FALSE when a part is missing or is no
\* directory.
RECURSIVE Walk(_, _, _)
Walk(t, at, parts) ==
    IF parts = << >> THEN [ok |-> TRUE, dir |-> at]
    ELSE IF Head(parts) = DotDot
        THEN Walk(t, SubSeq(at, 1, Len(at) - 1), Tail(parts))
    ELSE IF KindAt(t, Append(at, Head(parts))) = "dir"
        THEN Walk(t, Append(at, Head(parts)), Tail(parts))
    ELSE [ok |-> FALSE, dir |-> << >>]

IsPrefix(p, q) == Len(p) < Len(q) /\ SubSeq(q, 1, Len(p)) = p

\* A pattern is the sequence of its components, as split at the separator;
\* a pattern that starts with the separator has an empty first component.
\* rglob raises NotImplementedError on such a pattern, whatever the root.
IsAbsolute(pat) == pat # << >> /\ Head(pat) = << >>

\* The entries reached from directory dir by matching the components one
\* after the other, each against the names in the directory reached so far.
RECURSIVE Select(_, _, _)
Select(t, dir, comps) ==
    IF comps = << >> THEN {dir}
    ELSE UNION {Select(t, c, Tail(comps)) :
                  c \in {m \in DOMAIN t : /\ t[m] # "none"
                                          /\ Len(m) = Len(dir) + 1
                                          /\ IsPrefix(dir, m)
                                          /\ Match(m[Len(m)], Head(comps))
                                          /\ Len(comps) > 1 => t[m] = "dir"}}

\* The directories "**" stands for: the root and every directory below
\* it; links to directories are not followed.
DirsFrom(t, root) == {root} \cup {m \in DOMAIN t : t[m] = "dir" /\ IsPrefix(root, m)}

\* base.rglob(pattern), for a relative pattern: the pattern is matched
\* from the root and from every directory below it; the entries found are
\* spelled from base; nothing when base is no directory.
Rglob(t, base, pat) ==
    LET w == Walk(t, << >>, base)
    IN  IF ~w.ok THEN {}
        ELSE {base \o SubSeq(n, Len(w.dir) + 1, Len(n)) :
                n \in UNION {Select(t, dir, pat) : dir \in DirsFrom(t, w.dir)}}

\* Variant: p.exists() in place of p.is_file().
IsFile_Exists(t, p) ==
    LET w == Walk(t, << >>, SubSeq(p, 1, Len(p) - 1))
    IN  w.ok /\ KindAt(t, Append(w.dir, p[Len(p)])) # "none"

\* p.is_file(): a regular file, or a symbolic link to one.
IsFile(t, p) ==
    LET w == Walk(t, << >>, SubSeq(p, 1, Len(p) - 1))
    IN  w.ok /\ KindAt(t, Append(w.dir, p[Len(p)])) \in {"file", "linkfile"}

\* src.include or ["*"]
Patterns(src) == IF src.include = << >> THEN << << << "*" >> >> >> ELSE src.include

ToSet(seq) == {seq[i] : i \in DOMAIN seq}

\* All orders in which a directory scan may yield a set of paths.
Orders(S) ==
    {f \in [1..Cardinality(S) -> S] : \A i, j \in DOMAIN f : i # j => f[i] # f[j]}

\* set(hits) is iterated in an order of its own.
RECURSIVE SetToSeq(_)
SetToSeq(S) ==
    IF S = {} THEN << >>
    ELSE LET x == CHOOSE y \in S : TRUE
         IN  << x >> \o SetToSeq(S \ {x})

\* sorted(): a stable sort by PurePath.__lt__.
RECURSIVE Insert(_, _)
Insert(x, seq) ==
    IF seq = << >> THEN << x >>
    ELSE IF PathLt(x, Head(seq)) THEN << x >> \o seq
    ELSE << Head(seq) >> \o Insert(x, Tail(seq))

RECURSIVE SortList(_)
SortList(seq) ==
    IF seq = << >> THEN << >>
    ELSE Insert(seq[Len(seq)], SortList(SubSeq(seq, 1, Len(seq) - 1)))

\* Variant: sorted(hits), the set() forgotten.
SortedSet_NoSet(seq) == SortList(seq)

\* Variant: the set() kept, each path at its first occurrence, no sort.
RECURSIVE FirstOccurrences(_)
FirstOccurrences(seq) ==
    IF seq = << >> THEN << >>
    ELSE LET front == FirstOccurrences(SubSeq(seq, 1, Len(seq) - 1))
         IN  IF seq[Len(seq)] \in ToSet(front) THEN front
             ELSE Append(front, seq[Len(seq)])

SortedSet_Unsorted(seq) == FirstOccurrences(seq)

\* sorted(set(hits))    (line 149)
SortedSet(seq) == SortList(SetToSeq(ToSet(seq)))

\* One pass of the innermost loop (lines 144-146): every file the scan
\* yields for the current source and pattern is appended to hits; an
\* absolute pattern ends collect_files with NotImplementedError.
CF_Rglob ==
    /\ UNCHANGED <<cfgvars, clnvars>>
    /\ cpc = "loop"
    /\ si <= Len(srcs)
    /\ LET src  == srcs[si]
           base == PathOf(src.path)
           pat  == Patterns(src)[pi]
           found == {p \in Rglob(tree, base, pat) : IsFile(tree, p)}
       IN  IF IsAbsolute(pat)
             THEN cpc' = "raised" /\ UNCHANGED <<hits, si, pi>>
             ELSE /\ \E order \in Orders(found) : hits' = hits \o order
                  /\ IF pi < Len(Patterns(src))
                        THEN pi' = pi + 1 /\ si' = si
                        ELSE pi' = 1 /\ si' = si + 1
                  /\ UNCHANGED cpc
    /\ UNCHANGED <<tree, srcs, out>>

\* lines 148-150
CF_Return ==
    /\ UNCHANGED <<cfgvars, clnvars>>
    /\ cpc = "loop"
    /\ si > Len(srcs)
    /\ hits' = SortedSet(hits)
    /\ out' = hits'
    /\ cpc' = "done"
    /\ UNCHANGED <<tree, srcs, si, pi>>

CollectFiles ==
    \/ CF_Rglob
    \/ CF_Return

(***************************************************************************)
(* The directory trees and source lists collect_files is run on.           *)
(***************************************************************************)

\* Longest list of sources.
MaxSources == 2

NameD == << "d" >>

NameE == << "e" >>

NameB == << "b" >>

NameAC == << "a", ".", "c" >>

NameDC == << "d", ".", "c" >>

NameNX == << "n", "x" >>

\* d/ with a.c, b and e/a.c below it, and d.c/ with a.c below it; a.c in d/
\* may be a file, a directory, or a link to either.
TreesD ==
    {<< >>}
    \cup {(<<NameD>> :> "dir") @@ (<<NameD, NameAC>> :> ka)
             @@ (<<NameD, NameB>> :> kb) @@ e :
            ka \in {"none", "file", "dir", "linkfile", "linkdir"},
            kb \in {"none", "file"},
            e \in {<< >>,
                   (<<NameD, NameE>> :> "dir") @@ (<<NameD, NameE, NameAC>> :> "file")}}

TreesDC ==
    {<< >>, (<<NameDC>> :> "dir") @@ (<<NameDC, NameAC>> :> "file")}

Trees == {a @@ b : a \in TreesD, b \in TreesDC}

\* "*.c", "a*", "?.c", "e/*" and "/x"
PatC == << << "*", ".", "c" >> >>

PatA == << << "a", "*" >> >>

PatQ == << << "?", ".", "c" >> >>

PatE == << << "e" >>, << "*" >> >>

PatAbs == << << >>, << "x" >> >>

\* The sources the lists are made of: the working directory, d spelled
\* three ways, a root below d, a missing root; include lists that are
\* empty, overlap, repeat a pattern, list the same patterns in two orders,
\* hold a pattern of two components or an absolute pattern.
Sources ==
    { SourceConfig(<< Dot >>, << >>),
      SourceConfig(<< Dot >>, << PatE >>),
      SourceConfig(<< NameD >>, << PatAbs >>),
      SourceConfig(<< NameD >>, << >>),
      SourceConfig(<< NameD >>, << PatC, PatA >>),
      SourceConfig(<< NameD >>, << PatA, PatC >>),
      SourceConfig(<< Dot, NameD >>, << PatC, PatC >>),
      SourceConfig(<< NameD, NameE, DotDot >>, << >>),
      SourceConfig(<< NameD, NameE >>, << PatQ >>),
      SourceConfig(<< NameNX >>, << >>),
      SourceConfig(<< NameNX >>, << PatAbs >>) }

SourceSeqs == UNION {[1..n -> Sources] : n \in 0..MaxSources}

InitCollect ==
    /\ cpc = "loop"
    /\ tree \in Trees
    /\ srcs \in SourceSeqs
    /\ si = 1
    /\ pi = 1
    /\ hits = << >>
    /\ out = << >>
    \* load_config is not called
    /\ pc = "idle"
    /\ config_path = "None"
    /\ yaml = TRUE
    /\ content = Unparseable
    /\ opened = FALSE
    /\ data = Null
    /\ sources = << >>
    /\ cleaning = Null
    /\ export = Null
    /\ result = Running
    \* clean is not called
    /\ kpc = "idle"
    /\ records = << >>
    /\ options = CleaningConfig(TRUE, TRUE, TRUE, TRUE, FALSE)
    /\ work = << >>
    /\ once = << >>
    /\ pass = 0

SpecCollect == InitCollect /\ [][CollectFiles]_vars

(***************************************************************************)
(* Properties of collect_files.                                            *)
(***************************************************************************)

Returned == cpc = "done"

\* The unique strictly ascending sequence (by parts) of a set of paths.
RECURSIVE Ascending(_)
Ascending(S) ==
    IF S = {} THEN << >>
    ELSE LET m == CHOOSE x \in S : \A y \in S \ {x} : PartsLt(x, y)
         IN  << m >> \o Ascending(S \ {m})

\* The pattern as a string: its components joined by the separator.
RECURSIVE PatternStr(_)
PatternStr(pat) ==
    IF pat = << >> THEN << >>
    ELSE IF Len(pat) = 1 THEN Head(pat)
    ELSE Head(pat) \o << "/" >> \o PatternStr(Tail(pat))

\* The files below the root a path names whose name matches the pattern,
\* spelled from that path: regular files and symbolic links to them.
FilesNamed(path, pat) ==
    LET base == PathOf(path)
        w    == Walk(tree, << >>, base)
    IN  IF ~w.ok THEN {}
        ELSE {base \o SubSeq(n, Len(w.dir) + 1, Len(n)) :
                n \in {m \in DOMAIN tree : /\ tree[m] \in {"file", "linkfile"}
                                           /\ IsPrefix(w.dir, m)
                                           /\ Match(m[Len(m)], PatternStr(pat))}}

\* The files below the root a path names whose path below the root ends in
\* components that match the components of the pattern, one by one.
FilesEnding(path, pat) ==
    LET base == PathOf(path)
        w    == Walk(tree, << >>, base)
    IN  IF ~w.ok THEN {}
        ELSE {base \o SubSeq(n, Len(w.dir) + 1, Len(n)) :
                n \in {m \in DOMAIN tree :
                         /\ tree[m] \in {"file", "linkfile"}
                         /\ IsPrefix(w.dir, m)
                         /\ Len(m) - Len(w.dir) >= Len(pat)
                         /\ \A k \in DOMAIN pat :
                               Match(m[Len(m) - Len(pat) + k], pat[k])}}

\* The patterns a source asks for, an empty include list standing for "*".
Asked(include) == IF include = << >> THEN {<< << "*" >> >>} ELSE ToSet(include)

\* collect_files has ended, by returning or by raising.
Ended == cpc \in {"done", "raised"}

Outcome == [raised |-> cpc = "raised", paths |-> out]

\* What one source and pattern add to hits, in whatever order.
Found(path, pat) == {p \in Rglob(tree, PathOf(path), pat) : IsFile(tree, p)}

HasAbsolute(src) == \E pat \in Asked(src.include) : IsAbsolute(pat)

\* The outcome a list of sources is to have when taken by itself: an
\* absolute pattern anywhere raises, else the files found are returned in
\* ascending order.
OutcomeOf(ss) ==
    IF \E i \in DOMAIN ss : HasAbsolute(ss[i])
      THEN [raised |-> TRUE, paths |-> << >>]
      ELSE [raised |-> FALSE,
            paths |-> Ascending(UNION {UNION {Found(ss[i].path, pat) :
                                                pat \in Asked(ss[i].include)} :
                                         i \in DOMAIN ss})]

\* C5: the returned sequence contains no path twice.
C5_NoDuplicates ==
    Returned => \A i, j \in DOMAIN out : i # j => out[i] # out[j]

\* Two patterns of the first source match d/a.c, and the second source,
\* rooted above the first, reaches the same file.
C5_Witness ==
    /\ Returned
    /\ Len(srcs) = 2
    /\ srcs[1].path = << NameD >>
    /\ srcs[1].include = << PatC, PatA >>
    /\ srcs[2].path = << Dot >>
    /\ << NameD, NameAC >> \in ToSet(out)

\* C6 as stated: the returned sequence is strictly ascending in the order
\* of the full path strings, compared character by character with the
\* separators included.
C6_AsStated ==
    Returned =>
        \A i, j \in DOMAIN out : i < j => StrLt(PathStr(out[i]), PathStr(out[j]))

\* C6 (amended): the returned sequence is strictly ascending in the order
\* of the paths' parts: the paths are compared component by component, each
\* component character by character, the separators taking no part.
C6_AscendingByParts ==
    Returned => \A i, j \in DOMAIN out : i < j => PartsLt(out[i], out[j])

\* Files of both d/ and d.c/ are returned: d/a.c precedes d.c/a.c by parts
\* and follows it as a string.
C6_Witness ==
    /\ Returned
    /\ << NameD, NameAC >> \in ToSet(out)
    /\ << NameDC, NameAC >> \in ToSet(out)
    /\ Len(out) >= 3

RootExists(src) == Walk(tree, << >>, PathOf(src.path)).ok

\* C7 as stated: a source whose root does not exist causes no error and
\* contributes nothing: collect_files ends as it ends for the same list
\* without the sources whose root does not exist.
C7_AsStated ==
    Ended => Outcome = OutcomeOf(SelectSeq(srcs, RootExists))

\* What the sources of a list contribute together, by the names of files.
NamedBySources ==
    UNION {UNION {FilesNamed(srcs[i].path, pat) : pat \in Asked(srcs[i].include)} :
             i \in DOMAIN srcs}

NoDirectoryReturned ==
    \A i \in DOMAIN out :
        LET w == Walk(tree, << >>, SubSeq(out[i], 1, Len(out[i]) - 1))
        IN  /\ w.ok
            /\ KindAt(tree, Append(w.dir, out[i][Len(out[i])]))
                  \notin {"dir", "linkdir", "none"}

EndingBySources ==
    UNION {UNION {FilesEnding(srcs[i].path, pat) : pat \in Asked(srcs[i].include)} :
             i \in DOMAIN srcs}

SetView(ss) ==
    {[path |-> ss[i].path, pats |-> Asked(ss[i].include)] : i \in DOMAIN ss}

\* C10: on an unchanged tree the returned sequence is determined by the
\* set view of the sources alone, so permuting or repeating sources or
\* patterns, or calling again, returns the identical sequence.
C10_OrderIndependent ==
    Returned =>
        out = Ascending(UNION {UNION {Found(v.path, pat) : pat \in v.pats} :
                                 v \in SetView(srcs)})

\* Two sources with the same root list the same patterns in opposite
\* orders, and several files are returned.
C10_Witness ==
    /\ Returned
    /\ Len(srcs) = 2
    /\ srcs[1].path = srcs[2].path
    /\ srcs[1].include = << PatA, PatC >>
    /\ srcs[2].include = << PatC, PatA >>
    /\ Len(out) >= 2

(***************************************************************************)
(* Record cleaning.  The module declares the cleaning options and its      *)
(* docstring names the transforms, but no cleaning function is written;    *)
(* the operation below is the contract clean(records, options) of the      *)
(* specification: five transforms in a fixed order, each applied when its  *)
(* flag is set.  A record is a sequence of fields [k, v] with distinct     *)
(* keys; a string value is a sequence of characters, among them a space,   *)
(* the letter e, a combining acute accent and the precomposed e-acute.     *)
(***************************************************************************)

Fld(k, v) == [k |-> k, v |-> v]

\* str.lower() on the field names of the model.
LowerKey(k) == IF k = "A" THEN "a" ELSE IF k = "B" THEN "b" ELSE k

\* dict[k] = v: the value is replaced where the key stands, else appended.
Put(rec, k, v) ==
    IF \E i \in DOMAIN rec : rec[i].k = k
      THEN [i \in DOMAIN rec |-> IF rec[i].k = k THEN Fld(k, v) ELSE rec[i]]
      ELSE Append(rec, Fld(k, v))

\* Step 1: every field name lower-cased, the later field winning a clash.
RECURSIVE LowerKeys(_)
LowerKeys(rec) ==
    IF rec = << >> THEN << >>
    ELSE LET last == rec[Len(rec)]
         IN  Put(LowerKeys(SubSeq(rec, 1, Len(rec) - 1)), LowerKey(last.k), last.v)

IsSpace(ch) == ch = " "

RECURSIVE LStrip(_)
LStrip(str) ==
    IF str # << >> /\ IsSpace(Head(str)) THEN LStrip(Tail(str)) ELSE str

RECURSIVE RStrip(_)
RStrip(str) ==
    IF str # << >> /\ IsSpace(str[Len(str)])
      THEN RStrip(SubSeq(str, 1, Len(str) - 1))
      ELSE str

\* Variant: one leading and one trailing space removed per call.
StripOnce(str) ==
    LET l == IF str # << >> /\ IsSpace(Head(str)) THEN Tail(str) ELSE str
    IN  IF l # << >> /\ IsSpace(l[Len(l)]) THEN SubSeq(l, 1, Len(l) - 1) ELSE l

\* Step 2 on one string: leading and trailing whitespace stripped.
Strip(str) == RStrip(LStrip(str))

\* Step 3 on one string: canonical composition.
RECURSIVE NFC(_)
NFC(str) ==
    IF Len(str) < 2 THEN str
    ELSE IF str[1] = "e" /\ str[2] = "acute"
      THEN << "eacute" >> \o NFC(SubSeq(str, 3, Len(str)))
      ELSE << str[1] >> \o NFC(Tail(str))

\* Step 4: a record all of whose fields are empty strings or null.
AllEmpty(rec) ==
    \A i \in DOMAIN rec :
        rec[i].v.t = "null" \/ (rec[i].v.t = "str" /\ rec[i].v.v = << >>)

\* Step 5: the first occurrence of every record, in order.
RECURSIVE DropDuplicates(_)
DropDuplicates(recs) ==
    IF recs = << >> THEN << >>
    ELSE LET front == DropDuplicates(SubSeq(recs, 1, Len(recs) - 1))
             last  == recs[Len(recs)]
         IN  IF \E i \in DOMAIN front : front[i] = last THEN front
             ELSE Append(front, last)

\* Steps 2 and 3 touch the string-valued fields only.
TrimRecord(rec) ==
    [i \in DOMAIN rec |->
        IF rec[i].v.t = "str" THEN Fld(rec[i].k, VStr(Strip(rec[i].v.v)))
                              ELSE rec[i]]

NormalizeRecord(rec) ==
    [i \in DOMAIN rec |->
        IF rec[i].v.t = "str" THEN Fld(rec[i].k, VStr(NFC(rec[i].v.v)))
                              ELSE rec[i]]

KeepNonEmpty(rec) == ~AllEmpty(rec)

CL_LowerKeys ==
    /\ UNCHANGED <<cfgvars, colvars>>
    /\ kpc = "lower_keys"
    /\ work' = IF options.lower_keys THEN [i \in DOMAIN work |-> LowerKeys(work[i])] ELSE work
    /\ kpc' = "trim_whitespace"
    /\ UNCHANGED <<records, options, once, pass>>

CL_TrimWhitespace ==
    /\ UNCHANGED <<cfgvars, colvars>>
    /\ kpc = "trim_whitespace"
    /\ work' = IF options.trim_whitespace THEN [i \in DOMAIN work |-> TrimRecord(work[i])] ELSE work
    /\ kpc' = "normalize_unicode"
    /\ UNCHANGED <<records, options, once, pass>>

CL_NormalizeUnicode ==
    /\ UNCHANGED <<cfgvars, colvars>>
    /\ kpc = "normalize_unicode"
    /\ work' = IF options.normalize_unicode
                THEN [i \in DOMAIN work |-> NormalizeRecord(work[i])]
                ELSE work
    /\ kpc' = "remove_empty"
    /\ UNCHANGED <<records, options, once, pass>>

CL_RemoveEmpty ==
    /\ UNCHANGED <<cfgvars, colvars>>
    /\ kpc = "remove_empty"
    /\ work' = IF options.remove_empty THEN SelectSeq(work, KeepNonEmpty) ELSE work
    /\ kpc' = "drop_duplicates"
    /\ UNCHANGED <<records, options, once, pass>>

CL_DropDuplicates ==
    /\ UNCHANGED <<cfgvars, colvars>>
    /\ kpc = "drop_duplicates"
    /\ work' = IF options.drop_duplicates THEN DropDuplicates(work) ELSE work
    /\ kpc' = "return"
    /\ UNCHANGED <<records, options, once, pass>>

\* The first pass hands its result to the second; the second ends the run.
CL_Return ==
    /\ UNCHANGED <<cfgvars, colvars>>
    /\ kpc = "return"
    /\ IF pass = 1
          THEN once' = work /\ pass' = 2 /\ kpc' = "lower_keys"
          ELSE kpc' = "done" /\ UNCHANGED <<once, pass>>
    /\ UNCHANGED <<records, options, work>>

Clean ==
    \/ CL_LowerKeys
    \/ CL_TrimWhitespace
    \/ CL_NormalizeUnicode
    \/ CL_RemoveEmpty
    \/ CL_DropDuplicates
    \/ CL_Return

\* Longest record sequence.
MaxRecords == 2

Records ==
    { << >>,
      << Fld("a", VStr(<< >>)) >>,
      << Fld("a", VStr(<< " " >>)) >>,
      << Fld("a", VStr(<< "x" >>)) >>,
      << Fld("a", VStr(<< " ", " ", "x", " " >>)) >>,
      << Fld("a", VStr(<< "e", "acute" >>)) >>,
      << Fld("a", VStr(<< "eacute" >>)) >>,
      << Fld("a", VStr(<< " ", "e", "acute", " " >>)) >>,
      << Fld("A", VStr(<< "x" >>)) >>,
      << Fld("A", VInt(1)), Fld("a", VInt(2)) >>,
      << Fld("a", VInt(2)) >>,
      << Fld("a", VStr(<< >>)), Fld("b", Null) >>,
      << Fld("b", VStr(<< "x" >>)), Fld("A", VStr(<< " " >>)), Fld("a", Null) >> }

RecordSeqs == UNION {[1..n -> Records] : n \in 0..MaxRecords}

AllOptions ==
    {CleaningConfig(dd, tw, nu, re, lk) : dd \in BOOLEAN, tw \in BOOLEAN,
        nu \in BOOLEAN, re \in BOOLEAN, lk \in BOOLEAN}

InitClean ==
    /\ kpc = "lower_keys"
    /\ records \in RecordSeqs
    /\ options \in AllOptions
    /\ work = records
    /\ once = << >>
    /\ pass = 1
    \* load_config is not called
    /\ pc = "idle"
    /\ config_path = "None"
    /\ yaml = TRUE
    /\ content = Unparseable
    /\ opened = FALSE
    /\ data = Null
    /\ sources = << >>
    /\ cleaning = Null
    /\ export = Null
    /\ result = Running
    \* collect_files is not called
    /\ cpc = "idle"
    /\ tree = << >>
    /\ srcs = << >>
    /\ si = 0
    /\ pi = 0
    /\ hits = << >>
    /\ out = << >>

SpecClean == InitClean /\ [][Clean]_vars

\* C9: for every combination of the five flags and every record sequence,
\* cleaning the cleaned sequence again with the same options returns it
\* unchanged.
C9_Idempotent == kpc = "done" => work = once

\* With every flag set, a first pass that lower-cased a key, stripped and
\* composed a string and dropped a record has been followed by a second.
C9_Witness ==
    /\ kpc = "done"
    /\ options = CleaningConfig(TRUE, TRUE, TRUE, TRUE, TRUE)
    /\ records = << << Fld("A", VStr(<< "x" >>)) >>,
                    << Fld("a", VStr(<< " ", "e", "acute", " " >>)) >> >>
    /\ once = << << Fld("a", VStr(<< "x" >>)) >>,
                 << Fld("a", VStr(<< "eacute" >>)) >> >>

==========================================================================
